---- MODULE Spec2Model ----
(***************************************************************************)
(* KnowFlow: detection of repeated record structures in an HTML document.  *)
(*                                                                         *)
(* Two engines are modelled.                                               *)
(*   Strategy A  src/api/app.py  encontrar_contenedores_relevantes         *)
(*   Strategy B  src/api/semantic_container_detector.py  analyze_html_all  *)
(*                                                                         *)
(* The parsed document (BeautifulSoup's tree) is the input.  A node is a   *)
(* record [name, attrs, contents, text]; a NavigableString has name = None *)
(* and carries its characters in text.  A node is identified by its path:  *)
(* the sequence of child positions leading to it from the document         *)
(* object, so <<>> is the BeautifulSoup object itself.  Character data is  *)
(* a sequence of one-character strings, so that strip(), len() and join()  *)
(* are computed and not assumed.  Ratios the code computes in floating     *)
(* point (k/n >= 0.6 ...) are compared exactly, by cross-multiplication;   *)
(* for the sizes below the two agree.                                      *)
(***************************************************************************)
EXTENDS Integers, Sequences, FiniteSets, TLC

VARIABLES
  doc,                      \* the parsed tree (soup)
  elementos,                \* Strategy A: soup.find_all(True), the list the loop runs over
  pc,                       \* position of Strategy A: "loop", "done"; "idle" under SpecB
  idx,                      \* Strategy A: index into soup.find_all(True) of the next elemento_padre
  contenedores_encontrados, \* Strategy A: list of resultado
  instancias_encontradas,   \* Strategy A: list of instancia_contenedor
  xpaths_unicos,            \* Strategy A: set of container_xpath already emitted
  instancias_filtradas,     \* Strategy A: second return value
  emitidos,                 \* history: path of the element behind each resultado
  ultimo,                   \* history: the element handled by the last iteration and how it ended
  pcB,                      \* position of Strategy B: "start", "analyze", "sort", "done"; "idle" under Spec
  containers,               \* Strategy B: candidate_containers(soup), as paths
  idxB,                     \* Strategy B: index into containers of the next one to analyze
  results                   \* Strategy B: list of analyze_container results

vars == <<doc, elementos, pc, idx, contenedores_encontrados, instancias_encontradas, xpaths_unicos,
          instancias_filtradas, emitidos, ultimo, pcB, containers, idxB, results>>

varsA == <<elementos, pc, idx, contenedores_encontrados, instancias_encontradas, xpaths_unicos,
           instancias_filtradas, emitidos, ultimo>>

varsB == <<pcB, containers, idxB, results>>

-----------------------------------------------------------------------------
(* Program constants *)

MIN_HIJOS_REQUERIDOS == 3

\* UMBRAL_FRECUENCIA = 0.6, in hundredths
UMBRAL_FRECUENCIA == 60

\* "N/A (No Encontrado)"
NO_ENCONTRADO == <<"N", "/", "A", " ", "(", "N", "o", " ", "E", "n", "c", "o", "n", "t", "r", "a", "d", "o", ")">>

-----------------------------------------------------------------------------
(* The tree *)

\* the name of a NavigableString
None == "None"

DocumentName == "[document]"

Text(s) == [name |-> None, attrs |-> <<>>, contents |-> <<>>, text |-> s]

Elem(nm, at, ks) == [name |-> nm, attrs |-> at, contents |-> ks, text |-> <<>>]

\* an attribute value: a string, or a list of strings (class, rel ...)
StrVal(s) == [islist |-> FALSE, items |-> <<s>>]

ListVal(ss) == [islist |-> TRUE, items |-> ss]

Attr(k, v) == [k |-> k, v |-> v]

\* hasattr(h, 'name') and h.name is not None
IsTag(n) == n.name # None

RECURSIVE NodeIn(_, _)
NodeIn(n, p) == IF p = <<>> THEN n ELSE NodeIn(n.contents[Head(p)], Tail(p))

NodeAt(p) == NodeIn(doc, p)

ParentPath(p) == SubSeq(p, 1, Len(p) - 1)

\* tag.parents: the ancestors of p, nearest first, the document object last
Parents(p) == [k \in 1..Len(p) |-> SubSeq(p, 1, Len(p) - k)]

IsProperPrefix(a, b) == Len(a) < Len(b) /\ SubSeq(b, 1, Len(a)) = a

\* the positions of the elements among a node's contents, in order
RECURSIVE SelectIdx(_, _)
SelectIdx(ks, i) ==
  IF i > Len(ks) THEN <<>>
  ELSE (IF IsTag(ks[i]) THEN <<i>> ELSE <<>>) \o SelectIdx(ks, i + 1)

\* [h for h in tag.contents if h.name is not None] = tag.find_all(True, recursive=False)
ElementChildren(p) ==
  LET ix == SelectIdx(NodeAt(p).contents, 1)
  IN  [j \in 1..Len(ix) |-> p \o <<ix[j]>>]

\* soup.find_all(True) below p: every element, in document order
RECURSIVE ElementsBelow(_, _, _)
ElementsBelow(n, p, i) ==
  IF i > Len(n.contents) THEN <<>>
  ELSE (IF IsTag(n.contents[i])
          THEN <<p \o <<i>>>> \o ElementsBelow(n.contents[i], p \o <<i>>, 1)
          ELSE <<>>)
       \o ElementsBelow(n, p, i + 1)

find_all(d) == ElementsBelow(d, <<>>, 1)

\* tag.descendants: every node below n in document order, with the name of its parent
RECURSIVE Descendants(_, _)
Descendants(n, i) ==
  IF i > Len(n.contents) THEN <<>>
  ELSE <<[node |-> n.contents[i], parent |-> n.name]>>
       \o Descendants(n.contents[i], 1)
       \o Descendants(n, i + 1)

-----------------------------------------------------------------------------
(* Strings *)

\* sep.join(parts) on strings
RECURSIVE JoinStr(_, _)
JoinStr(parts, sep) ==
  IF parts = <<>> THEN ""
  ELSE IF Len(parts) = 1 THEN parts[1]
  ELSE parts[1] \o sep \o JoinStr(Tail(parts), sep)

\* sep.join(parts) on character sequences
RECURSIVE JoinChars(_, _)
JoinChars(parts, sep) ==
  IF parts = <<>> THEN <<>>
  ELSE IF Len(parts) = 1 THEN parts[1]
  ELSE parts[1] \o sep \o JoinChars(Tail(parts), sep)

Reverse(s) == [k \in 1..Len(s) |-> s[Len(s) + 1 - k]]

IsSpace(c) == c = " "

RECURSIVE LStrip(_)
LStrip(s) == IF s # <<>> /\ IsSpace(Head(s)) THEN LStrip(Tail(s)) ELSE s

\* str.strip()
Strip(s) == Reverse(LStrip(Reverse(LStrip(s))))

-----------------------------------------------------------------------------
(* 2. CSS path and XPath (app.py) *)

\* the number of nodes named nm among ks[1..upto]
RECURSIVE CountNamed(_, _, _)
CountNamed(ks, nm, upto) ==
  IF upto = 0 THEN 0
  ELSE CountNamed(ks, nm, upto - 1) + (IF ks[upto].name = nm THEN 1 ELSE 0)

\* one step of get_xpath's loop, for the ancestor a: count starts at 1 and
\* is raised by every previous sibling of the same name
XPathSegment(a) ==
  LET tag_name == NodeAt(a).name
      count    == 1 + CountNamed(NodeAt(ParentPath(a)).contents, tag_name, a[Len(a)] - 1)
  IN  tag_name \o "[" \o ToString(count) \o "]"

\* the loop runs over tag.parents and stops at the document object: the
\* segments are those of the ancestors of the tag
get_xpath(p) ==
  LET ps   == Parents(p)
      path == [k \in 1..(Len(ps) - 1) |-> XPathSegment(ps[k])]
  IN  "/" \o JoinStr(Reverse(path), "/")

\* one step of get_css_path's loop: the ancestor's rank among its parent's
\* children of the same name, itself included
CssSegment(a) ==
  LET tag_name == NodeAt(a).name
      sibling_index == CountNamed(NodeAt(ParentPath(a)).contents, tag_name, a[Len(a)])
  IN  tag_name \o ":nth-of-type(" \o ToString(sibling_index) \o ")"

get_css_path(p) ==
  LET ps   == Parents(p)
      path == [k \in 1..(Len(ps) - 1) |-> CssSegment(ps[k])]
  IN  JoinStr(Reverse(path), " > ")

-----------------------------------------------------------------------------
(* 3. Pattern logic (app.py) *)

RECURSIVE generar_huella(_)
RECURSIVE HuellaParts(_, _)
HuellaParts(ks, i) ==
  IF i > Len(ks) THEN <<>>
  ELSE (IF IsTag(ks[i])
          THEN LET child_huella == generar_huella(ks[i])
               IN  <<ks[i].name \o (IF child_huella # "" THEN "[" \o child_huella \o "]" ELSE "")>>
          ELSE <<>>)
       \o HuellaParts(ks, i + 1)

generar_huella(n) ==
  IF ~IsTag(n) THEN "" ELSE JoinStr(HuellaParts(n.contents, 1), "+")

\* " ".join(attr_value) if isinstance(attr_value, list) else str(attr_value)
AttrValue(v) == IF v.islist THEN JoinChars(v.items, <<" ">>) ELSE v.items[1]

\* the tuples one descendant contributes; i is its index in tag.descendants
DescendantTuples(d, i) ==
  IF IsTag(d.node)
    THEN LET relative_key == d.node.name \o "[" \o ToString(i) \o "]"
         IN  [j \in 1..Len(d.node.attrs) |->
                [relative_key |-> relative_key,
                 attr_name    |-> d.node.attrs[j].k,
                 value        |-> AttrValue(d.node.attrs[j].v)]]
    ELSE LET clean_text == Strip(d.node.text)
         IN  IF clean_text # <<>>
               THEN <<[relative_key |-> d.parent \o "_text[" \o ToString(i) \o "]",
                       attr_name    |-> "text_content",
                       value        |-> clean_text]>>
               ELSE <<>>

RECURSIVE CollectTuples(_, _)
CollectTuples(ds, k) ==
  IF k > Len(ds) THEN <<>>
  ELSE DescendantTuples(ds[k], k - 1) \o CollectTuples(ds, k + 1)

\* the list of (relative_key, attr_name, value) of a unit
obtener_atributos_descendientes_con_ruta_y_texto(n) ==
  CollectTuples(Descendants(n, 1), 1)

-----------------------------------------------------------------------------
(* Insertion-ordered dictionaries: a sequence of [k, v] with distinct keys *)

DictHas(d, k) == \E i \in 1..Len(d) : d[i].k = k

DictGet(d, k, default) ==
  IF DictHas(d, k) THEN d[CHOOSE i \in 1..Len(d) : d[i].k = k].v ELSE default

\* d[k] = v: an existing key keeps its place, a new key goes last
DictSet(d, k, v) ==
  IF DictHas(d, k)
    THEN [i \in 1..Len(d) |-> IF d[i].k = k THEN [k |-> k, v |-> v] ELSE d[i]]
    ELSE Append(d, [k |-> k, v |-> v])

DictKeys(d) == {d[i].k : i \in 1..Len(d)}

Range(s) == {s[i] : i \in 1..Len(s)}

-----------------------------------------------------------------------------
(* 4. Main algorithm (app.py), one elemento_padre at a time *)

hijos(e) == ElementChildren(e)

\* if huella: agrupados_por_huella.setdefault(huella, []).append(hijo)
AgruparHuella(grupos, hijo, huella) ==
  IF huella # ""
    THEN DictSet(grupos, huella, Append(DictGet(grupos, huella, <<>>), hijo))
    ELSE grupos

AgruparHijo(grupos, hijo) == AgruparHuella(grupos, hijo, generar_huella(NodeAt(hijo)))

RECURSIVE AgruparDesde(_, _, _)
AgruparDesde(grupos, hs, i) ==
  IF i > Len(hs) THEN grupos ELSE AgruparDesde(AgruparHijo(grupos, hs[i]), hs, i + 1)

\* the children hs grouped by fingerprint, in order of first appearance
agrupados_por_huella(hs) == AgruparDesde(<<>>, hs, 1)

\* max(items, key=lambda item: len(item[1])): the first item of greatest length
MaxItem(items) ==
  items[CHOOSE i \in 1..Len(items) :
          /\ \A j \in 1..Len(items) : Len(items[j].v) <= Len(items[i].v)
          /\ \A j \in 1..(i - 1) : Len(items[j].v) < Len(items[i].v)]

\* mutant: the comparison is strict
AceptaFrecuenciaEstricta(frecuencia_maxima, total, umbral) ==
  frecuencia_maxima * 100 > umbral * total

\* (frecuencia_maxima / len(hijos)) >= umbral, umbral in hundredths
AceptaFrecuencia(frecuencia_maxima, total, umbral) == frecuencia_maxima * 100 >= umbral * total

lista_de_atributos_por_unidad(unidades_semanticas) ==
  [u \in 1..Len(unidades_semanticas) |->
     obtener_atributos_descendientes_con_ruta_y_texto(NodeAt(unidades_semanticas[u]))]

\* mapa_valores_por_clave[(relative_key, attr_name)].append(attr_value)
AnotarValor(mapa, t) ==
  LET clave_atributo == <<t.relative_key, t.attr_name>>
  IN  DictSet(mapa, clave_atributo, Append(DictGet(mapa, clave_atributo, <<>>), t.value))

RECURSIVE AnotarUnidad(_, _, _)
AnotarUnidad(mapa, ts, i) ==
  IF i > Len(ts) THEN mapa ELSE AnotarUnidad(AnotarValor(mapa, ts[i]), ts, i + 1)

RECURSIVE AnotarDesde(_, _, _)
AnotarDesde(mapa, lista, u) ==
  IF u > Len(lista) THEN mapa ELSE AnotarDesde(AnotarUnidad(mapa, lista[u], 1), lista, u + 1)

mapa_valores_por_clave(lista) == AnotarDesde(<<>>, lista, 1)

\* f"{relative_key}@{attr_name}"
FieldKey(relative_key, attr_name) == relative_key \o "@" \o attr_name

\* mutant: the count of occurrences is not compared with the group size
EsVariableSinPresencia(valores, frecuencia_maxima) == Cardinality(Range(valores)) > 1

\* len(valores) == frecuencia_maxima and len(set(valores)) > 1
EsVariable(valores, frecuencia_maxima) ==
  Len(valores) = frecuencia_maxima /\ Cardinality(Range(valores)) > 1

RECURSIVE VariablesDesde(_, _, _)
VariablesDesde(mapa, frecuencia_maxima, i) ==
  IF i > Len(mapa) THEN <<>>
  ELSE (IF EsVariable(mapa[i].v, frecuencia_maxima)
          THEN <<FieldKey(mapa[i].k[1], mapa[i].k[2])>>
          ELSE <<>>)
       \o VariablesDesde(mapa, frecuencia_maxima, i + 1)

\* the variable FieldKeys of a group of units
variable_attrs_final(unidades_semanticas) ==
  VariablesDesde(mapa_valores_por_clave(lista_de_atributos_por_unidad(unidades_semanticas)),
                 Len(unidades_semanticas), 1)

\* mutant: the filter of containers without variables is missing
SinVariablesNunca(variables) == FALSE

\* if not variable_attrs_final: continue
SinVariables(variables) == variables = <<>>

RECURSIVE LookupDesde(_, _, _)
LookupDesde(m, ts, i) ==
  IF i > Len(ts) THEN m
  ELSE LookupDesde(DictSet(m, FieldKey(ts[i].relative_key, ts[i].attr_name), ts[i].value), ts, i + 1)

\* mutant: the lookup map is keyed by relative_key alone
RECURSIVE LookupPorRuta(_, _, _)
LookupPorRuta(m, ts, i) ==
  IF i > Len(ts) THEN m
  ELSE LookupPorRuta(DictSet(m, ts[i].relative_key, ts[i].value), ts, i + 1)

unidad_lookup_map_por_ruta(unidad) ==
  LookupPorRuta(<<>>, obtener_atributos_descendientes_con_ruta_y_texto(NodeAt(unidad)), 1)

unidad_lookup_map(unidad) ==
  LookupDesde(<<>>, obtener_atributos_descendientes_con_ruta_y_texto(NodeAt(unidad)), 1)

RECURSIVE InstanceDesde(_, _, _, _)
InstanceDesde(inst, lookup, keys, i) ==
  IF i > Len(keys) THEN inst
  ELSE InstanceDesde(DictSet(inst, keys[i], DictGet(lookup, keys[i], NO_ENCONTRADO)),
                     lookup, keys, i + 1)

\* mutant: the instance keeps every key of the unit
instance_data_todo(unidad, keys) == unidad_lookup_map(unidad)

\* instance_data of one unit
instance_data(unidad, keys) == InstanceDesde(<<>>, unidad_lookup_map(unidad), keys, 1)

data_instances(unidades_semanticas, keys) ==
  [u \in 1..Len(unidades_semanticas) |-> instance_data(unidades_semanticas[u], keys)]

\* the metadata of a container; container_preview is rendering and is left out
resultado(e, grupo, keys) ==
  [container_tag           |-> NodeAt(e).name,
   unit_root_tag           |-> NodeAt(grupo.v[1]).name,
   unit_count              |-> Len(grupo.v),
   container_css_path      |-> get_css_path(e),
   container_xpath         |-> get_xpath(e),
   semantic_variable_attrs |-> keys,
   dominant_huella         |-> grupo.k]

instancia_contenedor(e, grupo, keys) ==
  [container_xpath |-> get_xpath(e),
   unit_root_tag   |-> NodeAt(grupo.v[1]).name,
   instances       |-> data_instances(grupo.v, keys)]

\* the last loop of the function: the first instancia of every container_xpath
RECURSIVE FiltrarDesde(_, _, _, _)
FiltrarDesde(filtradas, vistos, insts, i) ==
  IF i > Len(insts) THEN filtradas
  ELSE IF insts[i].container_xpath \notin vistos
         THEN FiltrarDesde(Append(filtradas, insts[i]), vistos \cup {insts[i].container_xpath},
                           insts, i + 1)
         ELSE FiltrarDesde(filtradas, vistos, insts, i + 1)

FiltrarInstancias(insts) == FiltrarDesde(<<>>, {}, insts, 1)

\* How the body of the loop ends for the element e, with the xpaths seen so
\* far.  Each stage hands what it computed to the next as an argument.
FinDeGrupo(e, total, grupo, vistos) ==
  IF ~AceptaFrecuencia(Len(grupo.v), total, UMBRAL_FRECUENCIA) THEN "bajo_umbral"
  ELSE IF SinVariables(variable_attrs_final(grupo.v)) THEN "sin_variables"
  ELSE IF get_xpath(e) \in vistos THEN "xpath_repetido"
  ELSE "emitido"

FinDeGrupos(e, total, grupos, vistos) ==
  IF grupos = <<>> THEN "sin_huella" ELSE FinDeGrupo(e, total, MaxItem(grupos), vistos)

FinDeHijos(e, hs, vistos) ==
  IF Len(hs) < MIN_HIJOS_REQUERIDOS THEN "pocos_hijos"
  ELSE FinDeGrupos(e, Len(hs), agrupados_por_huella(hs), vistos)

Fin(e, vistos) == FinDeHijos(e, hijos(e), vistos)

elemento_padre == elementos[idx]

Iteracion(fin) ==
  /\ pc = "loop"
  /\ idx <= Len(elementos)
  /\ Fin(elemento_padre, xpaths_unicos) = fin
  /\ idx' = idx + 1
  /\ ultimo' = [elem |-> elemento_padre, fin |-> fin]
  /\ UNCHANGED <<doc, elementos, pc, instancias_filtradas, varsB>>

\* if len(hijos) < MIN_HIJOS_REQUERIDOS: continue
PocosHijos ==
  /\ Iteracion("pocos_hijos")
  /\ UNCHANGED <<contenedores_encontrados, instancias_encontradas, xpaths_unicos, emitidos>>

\* if not agrupados_por_huella: continue
SinHuella ==
  /\ Iteracion("sin_huella")
  /\ UNCHANGED <<contenedores_encontrados, instancias_encontradas, xpaths_unicos, emitidos>>

\* the dominant group is below UMBRAL_FRECUENCIA: the body is skipped
BajoUmbral ==
  /\ Iteracion("bajo_umbral")
  /\ UNCHANGED <<contenedores_encontrados, instancias_encontradas, xpaths_unicos, emitidos>>

\* if not variable_attrs_final: continue
Descartar ==
  /\ Iteracion("sin_variables")
  /\ UNCHANGED <<contenedores_encontrados, instancias_encontradas, xpaths_unicos, emitidos>>

\* if container_xpath in xpaths_unicos: continue
XPathRepetido ==
  /\ Iteracion("xpath_repetido")
  /\ UNCHANGED <<contenedores_encontrados, instancias_encontradas, xpaths_unicos, emitidos>>

EmitirCon(e, grupo, keys) ==
  /\ xpaths_unicos' = xpaths_unicos \cup {get_xpath(e)}
  /\ contenedores_encontrados' = Append(contenedores_encontrados, resultado(e, grupo, keys))
  /\ instancias_encontradas' = Append(instancias_encontradas, instancia_contenedor(e, grupo, keys))
  /\ emitidos' = Append(emitidos, e)

EmitirGrupo(e, grupo) == EmitirCon(e, grupo, variable_attrs_final(grupo.v))

\* the container is appended to both lists
Emitir ==
  /\ Iteracion("emitido")
  /\ EmitirGrupo(elemento_padre, MaxItem(agrupados_por_huella(hijos(elemento_padre))))

\* the loop is over: filter the instances and return
Retornar ==
  /\ pc = "loop"
  /\ idx > Len(elementos)
  /\ pc' = "done"
  /\ instancias_filtradas' = FiltrarInstancias(instancias_encontradas)
  /\ UNCHANGED <<doc, elementos, idx, contenedores_encontrados, instancias_encontradas,
                 xpaths_unicos, emitidos, ultimo, varsB>>

-----------------------------------------------------------------------------
(* Strategy B (semantic_container_detector.py) *)

\* analyze_container's defaults, the ratios in hundredths
MIN_UNITS == 2

THRESHOLD_SHARED == 95

THRESHOLD_VARIABLE_PRESENCE == 30

\* u < 0.15, u > 0.15
UNIQUE_RATIO_LIMIT == 15

\* complexity < 8
SHARED_COMPLEXITY_LIMIT == 8

\* complexity > 10
VARIABLE_COMPLEXITY_LIMIT == 10

\* es_contenedor_valido's default
MAX_CHILD_TAG_VARIATION == 3

\* the child count below which the tag variation is looked at
FEW_CHILDREN_LIMIT == 6

container_tags == <<"div", "span", "section", "article", "ul", "ol">>

\* the stripped, non-empty strings below n, in document order
RECURSIVE StrippedStrings(_, _)
StrippedStrings(n, i) ==
  IF i > Len(n.contents) THEN <<>>
  ELSE (IF IsTag(n.contents[i])
          THEN StrippedStrings(n.contents[i], 1)
          ELSE (IF Strip(n.contents[i].text) # <<>> THEN <<Strip(n.contents[i].text)>> ELSE <<>>))
       \o StrippedStrings(n, i + 1)

\* tag.get_text(" ", strip=True)
get_text(n) == JoinChars(StrippedStrings(n, 1), <<" ">>)

\* attrs[prefix::k] = value, for every attribute of n in order
RECURSIVE SetAttrs(_, _, _, _)
SetAttrs(attrs, prefix, n, j) ==
  IF j > Len(n.attrs) THEN attrs
  ELSE SetAttrs(DictSet(attrs, prefix \o "::" \o n.attrs[j].k, AttrValue(n.attrs[j].v)),
                prefix, n, j + 1)

\* if text: attrs[prefix::text] = text
SetTextValue(attrs, prefix, text) ==
  IF text # <<>> THEN DictSet(attrs, prefix \o "::text", text) ELSE attrs

SetText(attrs, prefix, n) == SetTextValue(attrs, prefix, get_text(n))

\* the names on the way from the unit (excluded) down to its descendant at
\* the relative path rel: "/".join(reversed(path_parts))
RelPath(unit, rel) ==
  JoinStr([k \in 1..Len(rel) |-> NodeIn(unit, SubSeq(rel, 1, k)).name], "/")

\* the attributes, then the text, of one descendant
CollectChild(attrs, child, rel_path) == SetText(SetAttrs(attrs, rel_path, child, 1), rel_path, child)

RECURSIVE CollectDescendants(_, _, _, _)
CollectDescendants(attrs, unit, rels, i) ==
  IF i > Len(rels) THEN attrs
  ELSE CollectDescendants(CollectChild(attrs, NodeIn(unit, rels[i]), RelPath(unit, rels[i])),
                          unit, rels, i + 1)

\* the dictionary of a unit: its own attributes and text, then those of
\* every descendant element under its relative tag path (a later write to
\* the same key replaces the earlier one)
collect_attrs(unit) ==
  CollectDescendants(SetText(SetAttrs(<<>>, "self", unit, 1), "self", unit),
                     unit, ElementsBelow(unit, <<>>, 1), 1)

RECURSIVE SumTo(_, _)
SumTo(lengths, i) == IF i = 0 THEN 0 ELSE SumTo(lengths, i - 1) + lengths[i]

Sum(lengths) == SumTo(lengths, Len(lengths))

\* statistics.mean(lengths), as a fraction
Mean(lengths) == [num |-> Sum(lengths), den |-> Len(lengths)]

\* statistics.pvariance(lengths), as a fraction: sum((l - mean)^2) / m
PVarianceOf(m, total, squares) == [num |-> m * squares - total * total, den |-> m * m]

PVariance(lengths) ==
  PVarianceOf(Len(lengths), Sum(lengths), Sum([i \in 1..Len(lengths) |-> lengths[i] * lengths[i]]))

\* the values of the units that have the key, in unit order
RECURSIVE ExistingValues(_, _, _)
ExistingValues(attrs_per_unit, attr, i) ==
  IF i > Len(attrs_per_unit) THEN <<>>
  ELSE (IF DictHas(attrs_per_unit[i], attr)
          THEN <<DictGet(attrs_per_unit[i], attr, <<>>)>>
          ELSE <<>>)
       \o ExistingValues(attrs_per_unit, attr, i + 1)

StatsOfLengths(existing_values, lengths, n) ==
  [present       |-> Len(existing_values),
   n             |-> n,
   unique_values |-> Cardinality(Range(existing_values)),
   avg_length    |-> IF existing_values # <<>> THEN Mean(lengths) ELSE [num |-> 0, den |-> 1],
   length_var    |-> IF Len(lengths) > 1 THEN PVariance(lengths) ELSE [num |-> 0, den |-> 1]]

StatsOfValues(existing_values, n) ==
  StatsOfLengths(existing_values,
                 [i \in 1..Len(existing_values) |-> Len(existing_values[i])], n)

\* stats[attr]; sample_values is left out
AttrStats(attrs_per_unit, attr) ==
  StatsOfValues(ExistingValues(attrs_per_unit, attr, 1), Len(attrs_per_unit))

\* p >= threshold, p = present / n, threshold in hundredths
PresentAtLeast(st, threshold) == st.present * 100 >= threshold * st.n

\* mutant: the limit of the unique ratio is 0.5
UniqueBelowMitad(st) ==
  IF st.present = 0 THEN TRUE ELSE st.unique_values * 100 < 50 * st.present

\* u < 0.15 and u > 0.15, u = (uniq / present) if present else 0.0
UniqueBelow(st) ==
  IF st.present = 0 THEN TRUE ELSE st.unique_values * 100 < UNIQUE_RATIO_LIMIT * st.present

UniqueAbove(st) ==
  IF st.present = 0 THEN FALSE ELSE st.unique_values * 100 > UNIQUE_RATIO_LIMIT * st.present

\* complexity = avg_length + length_var, as a fraction
Complexity(st) ==
  [num |-> st.avg_length.num * st.length_var.den + st.length_var.num * st.avg_length.den,
   den |-> st.avg_length.den * st.length_var.den]

ComplexityBelow(st, limit) == Complexity(st).num < limit * Complexity(st).den

ComplexityAbove(st, limit) == Complexity(st).num > limit * Complexity(st).den

\* mutant: shared needs only one of the two conditions
ClassifyCualquiera(st, threshold_shared, threshold_variable_presence) ==
  IF PresentAtLeast(st, threshold_shared)
    THEN (IF UniqueBelow(st) \/ ComplexityBelow(st, SHARED_COMPLEXITY_LIMIT)
            THEN "shared" ELSE "variable")
  ELSE IF PresentAtLeast(st, threshold_variable_presence)
    THEN (IF UniqueAbove(st) \/ ComplexityAbove(st, VARIABLE_COMPLEXITY_LIMIT)
            THEN "variable" ELSE "noise")
  ELSE "noise"

\* mutant: a key between the two thresholds is always variable
ClassifyMedioVariable(st, threshold_shared, threshold_variable_presence) ==
  IF PresentAtLeast(st, threshold_shared)
    THEN (IF UniqueBelow(st) /\ ComplexityBelow(st, SHARED_COMPLEXITY_LIMIT)
            THEN "shared" ELSE "variable")
  ELSE IF PresentAtLeast(st, threshold_variable_presence) THEN "variable"
  ELSE "noise"

\* the list the key is appended to
Classify(st, threshold_shared, threshold_variable_presence) ==
  IF PresentAtLeast(st, threshold_shared)
    THEN (IF UniqueBelow(st) /\ ComplexityBelow(st, SHARED_COMPLEXITY_LIMIT)
            THEN "shared" ELSE "variable")
  ELSE IF PresentAtLeast(st, threshold_variable_presence)
    THEN (IF UniqueAbove(st) \/ ComplexityAbove(st, VARIABLE_COMPLEXITY_LIMIT)
            THEN "variable" ELSE "noise")
  ELSE "noise"

\* units = the element children of the container
UnitsOf(c) == ElementChildren(c)

\* analyze_container's None
NoResult == <<>>

\* analyze_container: None below min_units; the three lists are sorted and
\* hold distinct keys, so each is given as the set of its keys
\* Each stage hands what it computed to the next as an argument.
AnalysisResult(c, units, stats, class) ==
  [container                |-> c,
   container_tag            |-> NodeAt(c).name,
   unit_root_tag            |-> NodeAt(units[1]).name,
   unit_count               |-> Len(units),
   shared_attrs             |-> {a \in DOMAIN class : class[a] = "shared"},
   semantic_variable_attrs  |-> {a \in DOMAIN class : class[a] = "variable"},
   noise_attrs              |-> {a \in DOMAIN class : class[a] = "noise"},
   attr_stats               |-> stats]

ClassifyAll(stats, threshold_shared, threshold_variable_presence) ==
  [attr \in DOMAIN stats |-> Classify(stats[attr], threshold_shared, threshold_variable_presence)]

AnalyzeStats(c, units, stats, threshold_shared, threshold_variable_presence) ==
  AnalysisResult(c, units, stats,
                 ClassifyAll(stats, threshold_shared, threshold_variable_presence))

StatsOfUnits(attrs_per_unit) ==
  [attr \in UNION {DictKeys(attrs_per_unit[u]) : u \in 1..Len(attrs_per_unit)} |->
     AttrStats(attrs_per_unit, attr)]

AnalyzeUnits(c, units, min_units, threshold_shared, threshold_variable_presence) ==
  IF Len(units) < min_units THEN NoResult
  ELSE AnalyzeStats(c, units,
                    StatsOfUnits([u \in 1..Len(units) |-> collect_attrs(NodeAt(units[u]))]),
                    threshold_shared, threshold_variable_presence)

analyze_container(c, min_units, threshold_shared, threshold_variable_presence) ==
  AnalyzeUnits(c, UnitsOf(c), min_units, threshold_shared, threshold_variable_presence)

ValidoConHijos(hs, min_units, max_child_tag_variation) ==
  IF Len(hs) < min_units THEN FALSE
  ELSE IF /\ Cardinality({NodeAt(hs[i]).name : i \in 1..Len(hs)}) > max_child_tag_variation
          /\ Len(hs) < FEW_CHILDREN_LIMIT
    THEN FALSE
  ELSE TRUE

es_contenedor_valido(elem, min_units, max_child_tag_variation) ==
  ValidoConHijos(ElementChildren(elem), min_units, max_child_tag_variation)

\* [c for c in s if keep(c)]
RECURSIVE FilterFrom(_, _, _)
FilterFrom(s, keep(_), i) ==
  IF i > Len(s) THEN <<>>
  ELSE (IF keep(s[i]) THEN <<s[i]>> ELSE <<>>) \o FilterFrom(s, keep, i + 1)

Filter(s, keep(_)) == FilterFrom(s, keep, 1)

\* parent in valids: list membership compares tags with ==, and two tags
\* are == when name, attributes and contents are
InValids(parent, valids) == \E i \in 1..Len(valids) : NodeAt(valids[i]) = NodeAt(parent)

\* mutant: only c.parent is looked at
IsNestedSoloPadre(c, valids) == InValids(ParentPath(c), valids)

\* the walk from c.parent up to and including the document object
IsNested(c, valids) == \E k \in 1..Len(c) : InValids(Parents(c)[k], valids)

\* raw = soup.find_all(container_tags)
RawCandidates == Filter(find_all(doc), LAMBDA c : NodeAt(c).name \in Range(container_tags))

\* valids = [c for c in raw if es_contenedor_valido(c, min_units=min_units)]
ValidCandidates(min_units) ==
  Filter(RawCandidates, LAMBDA c : es_contenedor_valido(c, min_units, MAX_CHILD_TAG_VARIATION))

\* final: the valids that are not nested
OuterOnly(valids) == Filter(valids, LAMBDA c : ~IsNested(c, valids))

candidate_containers(min_units) == OuterOnly(ValidCandidates(min_units))

\* the key results are sorted by
SortKey(r) == <<r.unit_count, Cardinality(r.semantic_variable_attrs), Cardinality(r.shared_attrs)>>

\* a < b for tuples of three numbers
TupleLess(a, b) ==
  \/ a[1] < b[1]
  \/ a[1] = b[1] /\ a[2] < b[2]
  \/ a[1] = b[1] /\ a[2] = b[2] /\ a[3] < b[3]

\* r goes before the first entry with a smaller key: equal keys keep their order
RECURSIVE InsertDesc(_, _)
InsertDesc(sorted, r) ==
  IF sorted = <<>> THEN <<r>>
  ELSE IF TupleLess(SortKey(Head(sorted)), SortKey(r)) THEN <<r>> \o sorted
  ELSE <<Head(sorted)>> \o InsertDesc(Tail(sorted), r)

\* results.sort(key=..., reverse=True): stable, greatest key first
RECURSIVE SortFirst(_, _)
SortFirst(rs, i) == IF i = 0 THEN <<>> ELSE InsertDesc(SortFirst(rs, i - 1), rs[i])

SortResults(rs) == SortFirst(rs, Len(rs))

\* containers = candidate_containers(soup, min_units=min_units)
Candidatos ==
  /\ pcB = "start"
  /\ containers' = candidate_containers(MIN_UNITS)
  /\ idxB' = 1
  /\ pcB' = "analyze"
  /\ UNCHANGED <<doc, results, varsA>>

\* if r: results.append(r)
AppendIf(rs, r) == IF r # NoResult THEN Append(rs, r) ELSE rs

\* r = analyze_container(c, min_units=min_units); if r: results.append(r)
Analizar ==
  /\ pcB = "analyze"
  /\ idxB <= Len(containers)
  /\ results' = AppendIf(results, analyze_container(containers[idxB], MIN_UNITS, THRESHOLD_SHARED,
                                                    THRESHOLD_VARIABLE_PRESENCE))
  /\ idxB' = idxB + 1
  /\ UNCHANGED <<doc, pcB, containers, varsA>>

\* results.sort(...); return results
Ordenar ==
  /\ pcB = "analyze"
  /\ idxB > Len(containers)
  /\ results' = SortResults(results)
  /\ pcB' = "done"
  /\ UNCHANGED <<doc, containers, idxB, varsA>>

-----------------------------------------------------------------------------
(* The documents Strategy A is run on: what the lxml parser hands over,    *)
(* html > body > children, or nothing at all for an empty input            *)

\* the most children body is given in DocsAnchos
MaxHijos == 5

Vals == {<<"1">>, <<"2">>}

Textos == {<<" ">>, <<"a">>, <<"b", " ">>}

AttrChoices == {<<>>} \cup {<<Attr("id", StrVal(v))>> : v \in Vals}

P(v) == Elem("p", <<Attr("id", StrVal(v))>>, <<>>)

TextoOpc == {<<>>} \cup {<<Text(s)>> : s \in Textos}

ElemOpc == {<<>>} \cup {<<Elem("p", a, <<>>)>> : a \in AttrChoices}

\* an <li> holding at most one text node, then at most one <p>
UnidadesRicas == {Elem("li", <<>>, t \o k) : t \in TextoOpc, k \in ElemOpc}

\* an <li> that is empty or holds one or two <p id=..>
UnidadesSimples ==
  {Elem("li", <<>>, k) :
     k \in {<<>>, <<P(<<"1">>)>>, <<P(<<"2">>)>>, <<P(<<"1">>), P(<<"1">>)>>}}

\* a <ul> of MIN_HIJOS_REQUERIDOS <li>, each holding one <p id=..>
Listas ==
  {Elem("ul", <<>>, k) :
     k \in [1..MIN_HIJOS_REQUERIDOS -> {Elem("li", <<>>, <<P(v)>>) : v \in Vals}]}

Html(kids) ==
  Elem(DocumentName, <<>>, <<Elem("html", <<>>, <<Elem("body", <<>>, kids)>>)>>)

DocVacio == Elem(DocumentName, <<>>, <<>>)

DocsRicos == {Html(k) : k \in [1..MIN_HIJOS_REQUERIDOS -> UnidadesRicas]}

DocsAnchos ==
  {Html(k) : k \in UNION {[1..n -> UnidadesSimples] : n \in (MIN_HIJOS_REQUERIDOS + 1)..MaxHijos}}

\* an <li> holding a <p> with a list-valued attribute
UnidadClase == Elem("li", <<>>, <<Elem("p", <<Attr("class", ListVal(<<<<"1">>, <<"2">>>>))>>, <<>>)>>)

DocsAnidados ==
  {Html(k) : k \in [1..MIN_HIJOS_REQUERIDOS -> UnidadesSimples \cup {UnidadClase} \cup Listas]}

\* the documents of Spec
EsDocA(d) ==
  \/ d = DocVacio
  \/ d \in DocsRicos
  \/ d \in DocsAnchos
  \/ d \in DocsAnidados

InitB0 ==
  /\ pcB = "idle"
  /\ containers = <<>>
  /\ idxB = 1
  /\ results = <<>>

Init ==
  /\ EsDocA(doc)
  /\ elementos = find_all(doc)
  /\ pc = "loop"
  /\ idx = 1
  /\ contenedores_encontrados = <<>>
  /\ instancias_encontradas = <<>>
  /\ xpaths_unicos = {}
  /\ instancias_filtradas = <<>>
  /\ emitidos = <<>>
  /\ ultimo = [elem |-> <<>>, fin |-> "inicio"]
  /\ InitB0

Next ==
  \/ PocosHijos
  \/ SinHuella
  \/ BajoUmbral
  \/ Descartar
  \/ XPathRepetido
  \/ Emitir
  \/ Retornar

Spec == Init /\ [][Next]_vars

-----------------------------------------------------------------------------
(* The documents Strategy B is run on: what html.parser hands over *)

\* the most elements of a document of DocsArbol
MaxNodos == 6

\* the most units of a container of DocsEstadistica
MaxUnidades == 8

TagsB == {"div", "p"}

Hello == <<"H", "e", "l", "l", "o">>

HelloWorld == <<"H", "e", "l", "l", "o", " ", "w", "o", "r", "l", "d">>

\* every tree of k elements over TagsB, and every sequence of trees of m elements in all
RECURSIVE Trees(_)
RECURSIVE Forests(_)
Forests(m) ==
  IF m = 0 THEN {<<>>}
  ELSE UNION {{<<t>> \o f : t \in Trees(k), f \in Forests(m - k)} : k \in 1..m}

Trees(k) == {Elem(tag, <<>>, f) : tag \in TagsB, f \in Forests(k - 1)}

Document(kids) == Elem(DocumentName, <<>>, kids)

\* one tree of at most MaxNodos elements, without attributes or text
DocsArbol == {Document(<<t>>) : t \in UNION {Trees(k) : k \in 1..MaxNodos}}

\* a <p> that is empty or holds one of two texts
UnidadesB == {Elem("p", <<>>, k) : k \in {<<>>, <<Text(Hello)>>, <<Text(HelloWorld)>>}}

\* a <div> of MIN_UNITS to MaxUnidades such <p>
DocsEstadistica ==
  {Document(<<Elem("div", <<>>, k)>>) :
     k \in UNION {[1..n -> UnidadesB] : n \in MIN_UNITS..MaxUnidades}}

\* a <p> with or without an attribute, holding a text, a <b> with a text, both or nothing
UnidadesConDescendientes ==
  {Elem("p", a, k) :
     a \in {<<>>, <<Attr("id", StrVal(<<"1">>))>>, <<Attr("class", ListVal(<<<<"1">>, <<"2">>>>))>>},
     k \in {<<>>, <<Text(<<" ", "x", " ">>)>>, <<Elem("b", <<>>, <<Text(Hello)>>)>>,
            <<Text(<<" ", "x", " ">>), Elem("b", <<>>, <<Text(Hello)>>)>>}}

\* a <div> of MIN_UNITS or MIN_UNITS + 1 such <p>
DocsDescendientes ==
  {Document(<<Elem("div", <<>>, k)>>) :
     k \in UNION {[1..n -> UnidadesConDescendientes] : n \in MIN_UNITS..(MIN_UNITS + 1)}}

\* the documents of SpecB
EsDocB(d) ==
  \/ d \in DocsArbol
  \/ d \in DocsEstadistica
  \/ d \in DocsDescendientes

InitA0 ==
  /\ elementos = <<>>
  /\ pc = "idle"
  /\ idx = 1
  /\ contenedores_encontrados = <<>>
  /\ instancias_encontradas = <<>>
  /\ xpaths_unicos = {}
  /\ instancias_filtradas = <<>>
  /\ emitidos = <<>>
  /\ ultimo = [elem |-> <<>>, fin |-> "inicio"]

InitB ==
  /\ EsDocB(doc)
  /\ pcB = "start"
  /\ containers = <<>>
  /\ idxB = 1
  /\ results = <<>>
  /\ InitA0

NextB ==
  \/ Candidatos
  \/ Analizar
  \/ Ordenar

SpecB == InitB /\ [][NextB]_vars

-----------------------------------------------------------------------------
(* Properties of Strategy A *)

\* the dominant group of the element e, as the loop selects it
Dominante(e) == MaxItem(agrupados_por_huella(hijos(e)))

\* the body of the loop reached the classification of the units
Clasificado(fin) == fin \in {"sin_variables", "xpath_repetido", "emitido"}

\* C1: two distinct elements of a document never have the same get_xpath,
\* so the xpath filter only ever skips an element that was already emitted.
C1_AddressesUnique ==
  /\ \A a \in Range(elementos) : \A b \in Range(elementos) :
       a # b => get_xpath(a) # get_xpath(b)
  /\ ultimo.fin = "xpath_repetido" => ultimo.elem \in Range(emitidos)

\* the tuples of all the given units are the same list
UnidadesIdenticas(us) ==
  \A u \in Range(us) :
    obtener_atributos_descendientes_con_ruta_y_texto(NodeAt(u))
      = obtener_atributos_descendientes_con_ruta_y_texto(NodeAt(us[1]))

\* C2: no resultado has an empty semantic_variable_attrs, and an element
\* whose dominant units all yield the same (FieldKey, value) list is in
\* neither list (the two lists and the history are appended to together).
C2_NoSignalDiscard ==
  /\ Len(contenedores_encontrados) = Len(emitidos)
  /\ Len(instancias_encontradas) = Len(emitidos)
  /\ Len(instancias_filtradas) <= Len(emitidos)
  /\ \A i \in 1..Len(emitidos) :
       /\ contenedores_encontrados[i].semantic_variable_attrs # <<>>
       /\ ~UnidadesIdenticas(Dominante(emitidos[i]).v)

\* C2 witness: a container that passed the threshold with identical units
\* has just been dropped.
C2_Witness ==
  /\ ultimo.fin = "sin_variables"
  /\ UnidadesIdenticas(Dominante(ultimo.elem).v)
  /\ ultimo.elem \notin Range(emitidos)

\* the fingerprints of the element children of e
HuellasDeHijos(e) == {generar_huella(NodeAt(h)) : h \in Range(hijos(e))}

\* the size of the largest set of children of e sharing one fingerprint of H
MayorGrupo(e, H) ==
  LET tam(h) == Cardinality({c \in Range(hijos(e)) : generar_huella(NodeAt(c)) = h})
  IN  IF H = {} THEN 0 ELSE CHOOSE m \in {tam(h) : h \in H} : \A h \in H : tam(h) <= m

\* C3 as stated: with the dominant group taken among all fingerprints, an
\* element with at least MIN_HIJOS_REQUERIDOS children is classified iff
\* the group holds at least 0.6 of the children.
C3_DominanceAllFingerprints ==
  (ultimo.fin # "inicio" /\ Len(hijos(ultimo.elem)) >= MIN_HIJOS_REQUERIDOS)
    => (Clasificado(ultimo.fin)
          <=> 5 * MayorGrupo(ultimo.elem, HuellasDeHijos(ultimo.elem)) >= 3 * Len(hijos(ultimo.elem)))

\* C3 amended: the dominant group is taken among the non-empty fingerprints
\* only (0 when there is none); the denominator is still every element child.
C3_DominanceNonEmptyFingerprints ==
  (ultimo.fin # "inicio" /\ Len(hijos(ultimo.elem)) >= MIN_HIJOS_REQUERIDOS)
    => (Clasificado(ultimo.fin)
          <=> 5 * MayorGrupo(ultimo.elem, HuellasDeHijos(ultimo.elem) \ {""})
                >= 3 * Len(hijos(ultimo.elem)))

\* C3 witness: a group of 3 among 5 children, exactly at the threshold, was classified.
C3_Witness ==
  /\ ultimo.fin # "inicio"
  /\ Len(hijos(ultimo.elem)) = 5
  /\ MayorGrupo(ultimo.elem, HuellasDeHijos(ultimo.elem) \ {""}) = 3
  /\ Clasificado(ultimo.fin)

\* C4: no reported container lies inside another reported container.
C4_NoNestedReported ==
  \A i \in 1..Len(emitidos) : \A j \in 1..Len(emitidos) :
    ~IsProperPrefix(emitidos[i], emitidos[j])

\* the container behind an instancia: the resultado of the same xpath
ContenedorDe(inst) ==
  contenedores_encontrados[CHOOSE i \in 1..Len(contenedores_encontrados) :
     contenedores_encontrados[i].container_xpath = inst.container_xpath]

EsquemaUniforme(insts) ==
  \A i \in 1..Len(insts) :
    /\ \E c \in 1..Len(contenedores_encontrados) :
         contenedores_encontrados[c].container_xpath = insts[i].container_xpath
    /\ Len(insts[i].instances) = ContenedorDe(insts[i]).unit_count
    /\ \A u \in 1..Len(insts[i].instances) :
         /\ DictKeys(insts[i].instances[u]) = Range(ContenedorDe(insts[i]).semantic_variable_attrs)
         /\ Len(insts[i].instances[u]) = Len(ContenedorDe(insts[i]).semantic_variable_attrs)

\* C6: every InstanceRecord of a reported container has exactly the keys of
\* that container's semantic_variable_attrs, one entry per key, and there
\* is one InstanceRecord per unit.
C6_UniformInstanceSchema ==
  /\ EsquemaUniforme(instancias_encontradas)
  /\ EsquemaUniforme(instancias_filtradas)

\* C6 witness: the function has returned a group of at least 3 instances
\* whose units hold more keys than the schema keeps.
C6_Witness ==
  /\ pc = "done"
  /\ \E i \in 1..Len(instancias_filtradas) :
       /\ Len(instancias_filtradas[i].instances) >= 3
       /\ \E u \in Range(Dominante(emitidos[i]).v) :
            Len(unidad_lookup_map(u)) > Len(instancias_filtradas[i].instances[1])

\* the FieldKeys of a unit, and the values a unit holds under a key
ClavesDe(u) ==
  {FieldKey(t.relative_key, t.attr_name) :
     t \in Range(obtener_atributos_descendientes_con_ruta_y_texto(NodeAt(u)))}

ValoresDe(u, k) ==
  {t.value : t \in {x \in Range(obtener_atributos_descendientes_con_ruta_y_texto(NodeAt(u))) :
                      FieldKey(x.relative_key, x.attr_name) = k}}

\* k occurs in every unit and its values are not all the same
Promovible(us, k) ==
  /\ \A u \in Range(us) : k \in ClavesDe(u)
  /\ Cardinality(UNION {ValoresDe(u, k) : u \in Range(us)}) > 1

\* C10: for a reported container, a FieldKey is in semantic_variable_attrs
\* iff it occurs in every unit of the dominant group and its values over
\* those units are not all identical.
C10_VariablePromotion ==
  \A i \in 1..Len(emitidos) :
    LET us == Dominante(emitidos[i]).v
    IN  \A k \in Range(contenedores_encontrados[i].semantic_variable_attrs)
                   \cup UNION {ClavesDe(u) : u \in Range(us)} :
          k \in Range(contenedores_encontrados[i].semantic_variable_attrs) <=> Promovible(us, k)

\* C10 witness: a reported container with a promoted key and a key whose
\* values differ but which is missing from some unit.
C10_Witness ==
  \E i \in 1..Len(emitidos) :
    LET us == Dominante(emitidos[i]).v
        ks == UNION {ClavesDe(u) : u \in Range(us)}
    IN  /\ \E k \in ks : k \in Range(contenedores_encontrados[i].semantic_variable_attrs)
        /\ \E k \in ks : /\ \E u \in Range(us) : k \notin ClavesDe(u)
                         /\ Cardinality(UNION {ValoresDe(u, k) : u \in Range(us)}) > 1

-----------------------------------------------------------------------------
(* Properties of Strategy B *)

ValidSet == Range(ValidCandidates(MIN_UNITS))

\* the place of the element e in document order
Posicion(e) == CHOOSE i \in 1..Len(find_all(doc)) : find_all(doc)[i] = e

OutermostOf(valid, returned) ==
  /\ returned = {c \in valid : ~\E a \in valid : IsProperPrefix(a, c)}
  /\ \A r \in returned : ~\E a \in valid : IsProperPrefix(a, r)
  /\ \A v \in valid : v \in returned \/ \E r \in returned : IsProperPrefix(r, v)

HelloDiv ==
  Document(<<Elem("div", <<>>, <<Elem("p", <<>>, <<Text(Hello)>>), Elem("p", <<>>, <<Text(Hello)>>),
                                 Elem("p", <<>>, <<Text(Hello)>>)>>)>>)

\* C7: no reported result has an empty semantic_variable_attrs, and the
\* <div> of three <p>Hello</p> yields no result.
C7_ZeroVariableDiscarded ==
  /\ \A i \in 1..Len(results) : results[i].semantic_variable_attrs # {}
  /\ (pcB = "done" /\ doc = HelloDiv) => results = <<>>

\* the units (by position) of the container that hold the key a, and its value there
Holders(attrs_per_unit, a) == {u \in 1..Len(attrs_per_unit) : DictHas(attrs_per_unit[u], a)}

ValueAt(attrs_per_unit, a, u) == DictGet(attrs_per_unit[u], a, <<>>)

\* m^3 * (avgLength + lengthVariance) over the holders of a, m their number:
\* m^2 * S + sum((m * l - S)^2), S the sum of the lengths l
ComplexityTimesCube(attrs_per_unit, a, m, total) ==
  m * m * total
    + Sum([u \in 1..Len(attrs_per_unit) |->
             IF u \in Holders(attrs_per_unit, a)
               THEN (m * Len(ValueAt(attrs_per_unit, a, u)) - total)
                      * (m * Len(ValueAt(attrs_per_unit, a, u)) - total)
               ELSE 0])

\* the class the rule of C8 gives the key a: present of n units hold it,
\* with distinct values, and complexity c3 / m^3
ExpectedClass(present, n, distinct, c3) ==
  IF 20 * present >= 19 * n
    THEN (IF 20 * distinct < 3 * present /\ c3 < 8 * present * present * present
            THEN "shared" ELSE "variable")
  ELSE IF 10 * present >= 3 * n
    THEN (IF 20 * distinct > 3 * present \/ c3 > 10 * present * present * present
            THEN "variable" ELSE "noise")
  ELSE "noise"

ExpectedClassOf(attrs_per_unit, a) ==
  ExpectedClass(Cardinality(Holders(attrs_per_unit, a)),
                Len(attrs_per_unit),
                Cardinality({ValueAt(attrs_per_unit, a, u) : u \in Holders(attrs_per_unit, a)}),
                ComplexityTimesCube(attrs_per_unit, a, Cardinality(Holders(attrs_per_unit, a)),
                   Sum([u \in 1..Len(attrs_per_unit) |->
                          IF u \in Holders(attrs_per_unit, a)
                            THEN Len(ValueAt(attrs_per_unit, a, u)) ELSE 0])))

ClassifiedAsRule(r, attrs_per_unit) ==
  LET observed == UNION {DictKeys(attrs_per_unit[u]) : u \in 1..Len(attrs_per_unit)}
  IN  /\ r.shared_attrs \cup r.semantic_variable_attrs \cup r.noise_attrs = observed
      /\ r.shared_attrs \cap r.semantic_variable_attrs = {}
      /\ r.shared_attrs \cap r.noise_attrs = {}
      /\ r.semantic_variable_attrs \cap r.noise_attrs = {}
      /\ \A a \in observed :
           /\ a \in r.shared_attrs <=> ExpectedClassOf(attrs_per_unit, a) = "shared"
           /\ a \in r.semantic_variable_attrs <=> ExpectedClassOf(attrs_per_unit, a) = "variable"
           /\ a \in r.noise_attrs <=> ExpectedClassOf(attrs_per_unit, a) = "noise"

AttrsPerUnit(c) == [u \in 1..Len(UnitsOf(c)) |-> collect_attrs(NodeAt(UnitsOf(c)[u]))]

\* C8: in every result, each observed FieldKey is in exactly one of the
\* three lists, the one the rule on p, u and complexity names.
C8_Classification ==
  \A i \in 1..Len(results) : ClassifiedAsRule(results[i], AttrsPerUnit(results[i].container))

\* C8 witness: the analysis is over and a result holds a shared key.
C8_Witness ==
  /\ pcB = "done"
  /\ \E i \in 1..Len(results) : results[i].shared_attrs # {}

\* the thresholds tried, in hundredths
Umbrales == {30, 60, 95, 100}

\* Strategy A reaches the classification of e under the threshold umbral
AceptadoConGrupos(total, grupos, umbral) ==
  /\ total >= MIN_HIJOS_REQUERIDOS
  /\ grupos # <<>>
  /\ AceptaFrecuencia(Len(MaxItem(grupos).v), total, umbral)

AceptadoA(e, umbral) == AceptadoConGrupos(Len(hijos(e)), agrupados_por_huella(hijos(e)), umbral)

MonotoneA(e) ==
  \A u1 \in Umbrales : \A u2 \in Umbrales :
    (u1 <= u2 /\ AceptadoA(e, u2)) => AceptadoA(e, u1)

\* with the statistics of a container: raising either threshold adds no
\* key to semantic_variable_attrs and turns no noise key into a shared key
MonotoneStats(c, units, stats) ==
  \A t1 \in Umbrales : \A t2 \in Umbrales : \A v1 \in Umbrales : \A v2 \in Umbrales :
    (t1 <= t2 /\ v1 <= v2)
      => /\ AnalyzeStats(c, units, stats, t2, v2).semantic_variable_attrs
              \subseteq AnalyzeStats(c, units, stats, t1, v1).semantic_variable_attrs
         /\ AnalyzeStats(c, units, stats, t1, v1).noise_attrs
              \cap AnalyzeStats(c, units, stats, t2, v2).shared_attrs = {}

MonotoneB(c) ==
  Len(UnitsOf(c)) >= MIN_UNITS => MonotoneStats(c, UnitsOf(c), StatsOfUnits(AttrsPerUnit(c)))

\* C9: for every element of the document taken as the container, raising
\* threshold_shared or threshold_variable_presence moves no key into
\* semantic_variable_attrs and no noise key into shared_attrs, and raising
\* UMBRAL_FRECUENCIA accepts no element that was rejected.  (The formula
\* reads the document only; it is evaluated once per document.)
C9_ThresholdMonotone ==
  pcB = "done" => \A e \in Range(find_all(doc)) : MonotoneA(e) /\ MonotoneB(e)

\* C9 witness: a document where a raised threshold does change both outcomes.
C9_Witness ==
  /\ pcB = "done"
  /\ \E e \in Range(find_all(doc)) : AceptadoA(e, 60) /\ ~AceptadoA(e, 95)
  /\ \E e \in Range(find_all(doc)) :
       /\ Len(UnitsOf(e)) >= MIN_UNITS
       /\ analyze_container(e, MIN_UNITS, 60, 30).semantic_variable_attrs
            # analyze_container(e, MIN_UNITS, 95, 95).semantic_variable_attrs

-----------------------------------------------------------------------------
(* Properties of the fingerprint *)

\* the tag-shape of a subtree: the name of its root and, in order, the
\* tag-shapes of its element children; attributes and text are left out
RECURSIVE TagShape(_)
TagShape(n) ==
  LET ix == SelectIdx(n.contents, 1)
  IN  [name |-> n.name, kids |-> [j \in 1..Len(ix) |-> TagShape(n.contents[ix[j]])]]

\* C11: two subtrees of a document have equal generar_huella exactly when
\* they have the same tag-shape (tag names, child counts, nesting, order).
C11_FingerprintEquivalence ==
  \A a \in Range(elementos) : \A b \in Range(elementos) :
    generar_huella(NodeAt(a)) = generar_huella(NodeAt(b))
      <=> TagShape(NodeAt(a)) = TagShape(NodeAt(b))

-----------------------------------------------------------------------------
(* Properties of the instances *)

\* every value of every record of the instance is read from the unit's own
\* tuples: none is the default of the lookup
SinCentinela(inst) ==
  \A j \in 1..Len(inst.instances) : \A n \in 1..Len(inst.instances[j]) :
    inst.instances[j][n].v # NO_ENCONTRADO

\* the keys of the schema are keys of every unit, and the record of a unit
\* holds the unit's own values; a key some unit lacks is not in the schema
EsquemaPresente(us, keys, inst) ==
  /\ \A j \in 1..Len(us) : \A k \in Range(keys) :
       /\ k \in ClavesDe(us[j])
       /\ DictGet(inst.instances[j], k, NO_ENCONTRADO) \in ValoresDe(us[j], k)
  /\ \A k \in UNION {ClavesDe(u) : u \in Range(us)} :
       (\E u \in Range(us) : k \notin ClavesDe(u)) => k \notin Range(keys)

\* C12: no value of an InstanceRecord in the output is the sentinel
\* "N/A (No Encontrado)": every key of the schema is found in every unit of
\* the group, and a key missing from a unit is not in the schema.
C12_SentinelUnreachable ==
  /\ \A i \in 1..Len(instancias_encontradas) :
       /\ SinCentinela(instancias_encontradas[i])
       /\ EsquemaPresente(Dominante(emitidos[i]).v,
                          contenedores_encontrados[i].semantic_variable_attrs,
                          instancias_encontradas[i])
  /\ \A i \in 1..Len(instancias_filtradas) : SinCentinela(instancias_filtradas[i])

\* C12 witness: the run is over and reported a container one of whose units
\* lacks a key that another unit of the group holds.
C12_Witness ==
  /\ pc = "done"
  /\ \E i \in 1..Len(instancias_filtradas) :
       /\ instancias_filtradas[i] = instancias_encontradas[i]
       /\ instancias_filtradas[i].instances[1] # <<>>
       /\ \E u \in Range(Dominante(emitidos[i]).v) : \E w \in Range(Dominante(emitidos[i]).v) :
            ClavesDe(u) \ ClavesDe(w) # {}

-----------------------------------------------------------------------------
(* Properties of the shared keys *)

\* the keys of the units that at least 95% of the units hold
CasiSiempre(attrs_per_unit) ==
  {a \in UNION {DictKeys(attrs_per_unit[u]) : u \in 1..Len(attrs_per_unit)} :
     20 * Cardinality(Holders(attrs_per_unit, a)) >= 19 * Len(attrs_per_unit)}

SharedNeedsSeven(r, attrs_per_unit) ==
  /\ \A a \in r.shared_attrs : Cardinality(Holders(attrs_per_unit, a)) >= 7
  /\ r.unit_count < 7
       => /\ r.shared_attrs = {}
          /\ CasiSiempre(attrs_per_unit) \subseteq r.semantic_variable_attrs

\* C13: with the default thresholds a shared key is held by at least 7
\* units; a container with fewer than 7 units has no shared key, and each of
\* its keys held by at least 95% of the units is variable.
C13_SharedNeedsSevenUnits ==
  \A i \in 1..Len(results) : SharedNeedsSeven(results[i], AttrsPerUnit(results[i].container))

SameEverywhere(attrs_per_unit, a) ==
  /\ Holders(attrs_per_unit, a) = 1..Len(attrs_per_unit)
  /\ Cardinality({ValueAt(attrs_per_unit, a, u) : u \in 1..Len(attrs_per_unit)}) = 1

\* C13 witness: the analysis is over and a container of fewer than 7 units
\* has a variable key whose value is the same in all of its units.
C13_Witness ==
  /\ pcB = "done"
  /\ \E i \in 1..Len(results) :
       /\ results[i].unit_count < 7
       /\ \E a \in results[i].semantic_variable_attrs :
            SameEverywhere(AttrsPerUnit(results[i].container), a)

====
